---- MODULE Spec2Model ----
(***************************************************************************)
(* RbmMultival (Sources/Machine/rbm_multival.cc): a restricted Boltzmann   *)
(* machine over sites with ls local values each.                           *)
(*                                                                         *)
(* Numbers.  Parameters (a, b, W), theta and vtilde are modelled as exact  *)
(* integers (the imaginary part and floating-point rounding are left out). *)
(* The two transcendental primitives, log(cosh(x)) and tanh(x), return     *)
(* fixed-point values in hundredths (rounded to two decimals), so every    *)
(* quantity that is added to one of them is scaled by 100.                 *)
(*                                                                         *)
(* Vectors are functions over 0..n-1, as the code indexes them; the weight *)
(* matrix W is a vector of rows, W[i][j] = W_(i, j).  tochange / newconf   *)
(* (std::vector arguments) are sequences.                                  *)
(***************************************************************************)
EXTENDS Integers, Sequences, FiniteSets, TLC

VARIABLES nv, ls, nh, usea, useb, npar, a, b, W, confindex,
          v, lookup, run, file, saved, call, ret, err

machine == <<nv, ls, nh, usea, useb, npar, a, b, W>>
vars == <<nv, ls, nh, usea, useb, npar, a, b, W, confindex,
          v, lookup, run, file, saved, call, ret, err>>

(***************************************************************************)
(* Bounds of the model.                                                    *)
(***************************************************************************)
\* parameter patterns 0..MaxSeed (values of uninitialised storage, arguments
\* of SetParameters, arrays of a record)
MaxSeed == 1
\* largest number of changes handed to one call (in a batch: between its moves)
MaxChange == 2
\* largest number of moves in one LogValDiff batch
MaxMoves == 2

(***************************************************************************)
(* The configuration space (AbstractHilbert collaborator).                 *)
(***************************************************************************)
\* the machine is built over two sites with the local values -1 and +1
Hilbert == [Size |-> 2, LocalStates |-> <<-1, 1>>]
LocalStates == Hilbert.LocalStates
HilbertSize == Hilbert.Size
HilbertLocalSize == Len(LocalStates)
\* values that are no local state
OtherValues == {0}
LegalValues == {LocalStates[i] : i \in 1..Len(LocalStates)}
Configs == [0..(HilbertSize - 1) -> LegalValues]

(***************************************************************************)
(* Vectors.                                                                *)
(***************************************************************************)
Zero(n) == [k \in 0..(n - 1) |-> 0]
Size(x) == Cardinality(DOMAIN x)
IsZero(x) == \A k \in DOMAIN x : x[k] = 0

RECURSIVE SumTo(_, _)
SumTo(f, n) == IF n = 0 THEN 0 ELSE f[n - 1] + SumTo(f, n - 1)
\* sum of the entries of a vector
Sum(x) == SumTo(x, Size(x))
Dot(x, y) == Sum([k \in DOMAIN x |-> x[k] * y[k]])

Abs(x) == IF x < 0 THEN -x ELSE x

\* log(cosh(x)) in hundredths: 0, 0.43, 1.33, then |x| - ln 2
LogCosh(x) == CASE Abs(x) = 0 -> 0
                [] Abs(x) = 1 -> 43
                [] Abs(x) = 2 -> 133
                [] OTHER -> 100 * Abs(x) - 69
SumLogCosh(theta) == Sum([j \in DOMAIN theta |-> LogCosh(theta[j])])

\* tanh(x) in hundredths: 0, 0.76, 0.96, 1.00 (odd)
Tanh(x) == LET t == CASE Abs(x) = 0 -> 0
                      [] Abs(x) = 1 -> 76
                      [] Abs(x) = 2 -> 96
                      [] OTHER -> 100
           IN IF x < 0 THEN -t ELSE t

\* parameter pattern s of length n: entries in -3..3, no two equal within any
\* seven consecutive positions when s > 0
PatVec(n, s) == [k \in 0..(n - 1) |-> (((s + 1) * (k + 1)) % 7) - 3]
Seeds == 0..MaxSeed

(***************************************************************************)
(* Configuration encoder.  ComputeVtilde and ComputeTheta are inline       *)
(* members; their bodies are the ones kept at lines 258-269.               *)
(***************************************************************************)
\* localconfs_(i + j) = localstates[j] for every block i of ls entries
localconfs(i) == LocalStates[(i % ls) + 1]

\* vtilde(i) = (localconfs_(i) == (mask_ * v)(i)), mask_(i, i / ls) = 1
ComputeVtilde(vv) ==
  [i \in 0..(nv * ls - 1) |-> IF localconfs(i) = vv[i \div ls] THEN 1 ELSE 0]

\* theta = W^T * vtilde + b
ComputeTheta(vv) ==
  LET vtilde == ComputeVtilde(vv)
  IN [j \in 0..(nh - 1) |->
        Sum([i \in 0..(nv * ls - 1) |-> W[i][j] * vtilde[i]]) + b[j]]

\* the lookup of a configuration: a fresh vector holding theta
InitLookup(vv) == ComputeTheta(vv)

\* confindex_[x] of a std::map: the index of x, 0 for a key the map lacks ...
IndexOf(ci, x) == IF x \in DOMAIN ci THEN ci[x] ELSE 0
\* ... which operator[] then inserts
Touch(ci, x) ==
  IF x \in DOMAIN ci THEN ci
  ELSE [y \in (DOMAIN ci) \cup {x} |-> IF y = x THEN 0 ELSE ci[y]]

\* confindex_[localstates[i]] = i for i < ls (entries of other keys stay)
InitConfindex(ci) ==
  [y \in (DOMAIN ci) \cup LegalValues |->
     IF y \in LegalValues
     THEN (CHOOSE i \in 1..Len(LocalStates) : LocalStates[i] = y) - 1
     ELSE ci[y]]

(***************************************************************************)
(* Init(): the number of parameters.                                       *)
(***************************************************************************)
NparOf(n, l, h, ua, ub) ==
  n * h * l + (IF ua THEN n * l ELSE 0) + (IF ub THEN h ELSE 0)

(***************************************************************************)
(* Parameter store.                                                        *)
(***************************************************************************)
\* the flat vector of (av, bv, Wm): a if used, then b if used, then W by rows
GetParametersOf(av, bv, Wm) ==
  LET ka == IF usea THEN nv * ls ELSE 0
      kb == ka + (IF useb THEN nh ELSE 0)
  IN [k \in 0..(npar - 1) |->
        IF k < ka THEN av[k]
        ELSE IF k < kb THEN bv[k - ka]
        ELSE Wm[(k - kb) \div nh][(k - kb) % nh]]

GetParameters == GetParametersOf(a, b, W)

\* a mutant: the hidden bias is read where the visible bias is
SetParametersShared(pars) ==
  LET ka == IF usea THEN nv * ls ELSE 0
      kb == ka + (IF useb THEN nh ELSE 0)
  IN [a |-> IF usea THEN [k \in 0..(nv * ls - 1) |-> pars[k]] ELSE a,
      b |-> IF useb THEN [p \in 0..(nh - 1) |-> pars[p]] ELSE b,
      W |-> [i \in 0..(nv * ls - 1) |->
               [j \in 0..(nh - 1) |-> pars[kb + i * nh + j]]]]

\* the arrays after SetParameters(pars): k runs over a, then b, then W by rows
SetParameters(pars) ==
  LET ka == IF usea THEN nv * ls ELSE 0
      kb == ka + (IF useb THEN nh ELSE 0)
  IN [a |-> IF usea THEN [k \in 0..(nv * ls - 1) |-> pars[k]] ELSE a,
      b |-> IF useb THEN [p \in 0..(nh - 1) |-> pars[ka + p]] ELSE b,
      W |-> [i \in 0..(nv * ls - 1) |->
               [j \in 0..(nh - 1) |-> pars[kb + i * nh + j]]]]

(***************************************************************************)
(* State serializer.  A json object is a record; a field the object lacks  *)
(* is no field of the record.                                              *)
(***************************************************************************)
FieldExists(pars, f) == f \in DOMAIN pars

\* a mutant: Save leaves the hidden-bias flag out
SaveNoFlag ==
  [Name |-> "RbmMultival", Nvisible |-> nv, Nhidden |-> nh, LocalSize |-> ls,
   UseVisibleBias |-> usea, a |-> a, b |-> b, W |-> W]

Save ==
  [Name |-> "RbmMultival", Nvisible |-> nv, Nhidden |-> nh, LocalSize |-> ls,
   UseVisibleBias |-> usea, UseHiddenBias |-> useb, a |-> a, b |-> b, W |-> W]

\* the members as they are (with the exception raised or not)
Members(e) ==
  [err |-> e, nv |-> nv, ls |-> ls, nh |-> nh, usea |-> usea, useb |-> useb,
   npar |-> npar, a |-> a, b |-> b, W |-> W, confindex |-> confindex]

\* Load(pars).  garbage: what W_.resize leaves in W_ when its shape changes
\* (resize keeps the coefficients only of a matrix whose shape it keeps).
Load(pars, garbage) ==
  IF ~FieldExists(pars, "Name") \/ pars.Name # "RbmMultival" THEN Members(TRUE)
  ELSE
    LET nv1 == IF FieldExists(pars, "Nvisible") THEN pars.Nvisible ELSE nv
        ls1 == IF FieldExists(pars, "LocalSize") THEN pars.LocalSize ELSE ls
    IN IF nv1 # HilbertSize THEN [Members(TRUE) EXCEPT !.nv = nv1]
       ELSE IF ls1 # HilbertLocalSize
       THEN [Members(TRUE) EXCEPT !.nv = nv1, !.ls = ls1]
       ELSE IF ~FieldExists(pars, "Nhidden") /\ ~FieldExists(pars, "Alpha")
       THEN [Members(TRUE) EXCEPT !.nv = nv1, !.ls = ls1]
       ELSE
         LET nh1 == IF FieldExists(pars, "Nhidden") THEN pars.Nhidden
                    ELSE nv1 * pars.Alpha
             usea1 == IF FieldExists(pars, "UseVisibleBias")
                      THEN pars.UseVisibleBias ELSE TRUE
             useb1 == IF FieldExists(pars, "UseHiddenBias")
                      THEN pars.UseHiddenBias ELSE TRUE
         IN [err |-> FALSE, nv |-> nv1, ls |-> ls1, nh |-> nh1,
             usea |-> usea1, useb |-> useb1,
             \* Init()
             npar |-> NparOf(nv1, ls1, nh1, usea1, useb1),
             \* the parameters, if defined in the input
             a |-> IF FieldExists(pars, "a") THEN pars.a ELSE Zero(nv1 * ls1),
             b |-> IF FieldExists(pars, "b") THEN pars.b ELSE Zero(nh1),
             W |-> IF FieldExists(pars, "W") THEN pars.W
                   ELSE IF nh1 = nh /\ Size(W) = nv1 * ls1 THEN W
                   ELSE garbage,
             confindex |-> InitConfindex(confindex)]

(***************************************************************************)
(* The inputs of the model.                                                *)
(***************************************************************************)
\* parameter state s of a machine with h hidden units: the arrays of a bias
\* that is not used are zero
Arrays(h, ua, ub, s) ==
  LET n == HilbertSize * HilbertLocalSize
      p == PatVec(n + h + n * h, s)
  IN [a |-> IF ua THEN [k \in 0..(n - 1) |-> p[k]] ELSE Zero(n),
      b |-> IF ub THEN [k \in 0..(h - 1) |-> p[n + k]] ELSE Zero(h),
      W |-> [i \in 0..(n - 1) |-> [j \in 0..(h - 1) |-> p[n + h + i * h + j]]]]


Drop(r, f) == [x \in (DOMAIN r) \ {f} |-> r[x]]
With(r, f, val) == [x \in (DOMAIN r) \cup {f} |-> IF x = f THEN val ELSE r[x]]

\* the records that differ in one field from the record r that Save wrote
Edits(r) ==
  {With(r, "Name", "RbmSpin"),
   With(r, "Nvisible", r.Nvisible + 1),
   With(r, "LocalSize", r.LocalSize + 1),
   With(r, "UseVisibleBias", FALSE),
   With(r, "UseHiddenBias", FALSE),
   Drop(r, "Nhidden")}
  \cup (IF r.Nhidden % r.Nvisible = 0
        THEN {With(Drop(r, "Nhidden"), "Alpha", r.Nhidden \div r.Nvisible)}
        ELSE {})
  \cup {Drop(r, f) : f \in {"Name", "Nvisible", "LocalSize", "UseVisibleBias",
                            "UseHiddenBias"}}

(***************************************************************************)
(* Incremental evaluator.                                                  *)
(***************************************************************************)
Minus(x, y) == [j \in DOMAIN x |-> x[j] - y[j]]
Plus(x, y) == [j \in DOMAIN x |-> x[j] + y[j]]

\* a mutant: the row of the new value is taken in the block of site 0
UpdateStepSite0(vv, sf, newval, st) ==
  LET oldtilde == IndexOf(st.ci, vv[sf])
      ci1 == Touch(st.ci, vv[sf])
      newtilde == IndexOf(ci1, newval)
      ci2 == Touch(ci1, newval)
  IN [lt |-> Plus(Minus(st.lt, W[ls * sf + oldtilde]), W[newtilde]),
      ci |-> ci2]

\* one turn of the loop of UpdateLookup on st = [lt, ci]
UpdateStep(vv, sf, newval, st) ==
  LET oldtilde == IndexOf(st.ci, vv[sf])
      ci1 == Touch(st.ci, vv[sf])
      newtilde == IndexOf(ci1, newval)
      ci2 == Touch(ci1, newval)
  IN [lt |-> Plus(Minus(st.lt, W[ls * sf + oldtilde]), W[ls * sf + newtilde]),
      ci |-> ci2]

RECURSIVE UpdateLoop(_, _, _, _, _)
UpdateLoop(s, vv, tochange, newconf, st) ==
  IF s > Len(tochange) THEN st
  ELSE UpdateLoop(s + 1, vv, tochange, newconf,
                  UpdateStep(vv, tochange[s], newconf[s], st))

\* UpdateLookup(v, tochange, newconf, lookup): the lookup and confindex_ after
UpdateLookup(vv, tochange, newconf, lt) ==
  IF Len(tochange) # 0
  THEN UpdateLoop(1, vv, tochange, newconf, [lt |-> lt, ci |-> confindex])
  ELSE [lt |-> lt, ci |-> confindex]

\* what the caller does after the call: v[tochange[s]] = newconf[s] in turn
RECURSIVE SetConf(_, _, _, _)
SetConf(s, vv, tochange, newconf) ==
  IF s > Len(tochange) THEN vv
  ELSE SetConf(s + 1, [vv EXCEPT ![tochange[s]] = newconf[s]], tochange, newconf)

(***************************************************************************)
(* Amplitude and ratio engine (values in hundredths).                      *)
(***************************************************************************)
\* LogValSingle(v, lt); lt = << >> is the empty lookup
LogValSingle(vv, lt) ==
  IF lt = << >>
  THEN 100 * Dot(ComputeVtilde(vv), a) + SumLogCosh(ComputeTheta(vv))
  ELSE 100 * Dot(ComputeVtilde(vv), a) + SumLogCosh(lt)

\* a mutant: the visible bias of the new value is taken in the block of site 0
DiffStepSite0(vv, sf, newval, st) ==
  LET oldtilde == IndexOf(st.ci, vv[sf])
      ci1 == Touch(st.ci, vv[sf])
      newtilde == IndexOf(ci1, newval)
      ci2 == Touch(ci1, newval)
  IN [d |-> st.d - 100 * a[ls * sf + oldtilde] + 100 * a[newtilde],
      th |-> Plus(Minus(st.th, W[ls * sf + oldtilde]), W[ls * sf + newtilde]),
      ci |-> ci2]

\* one turn of the inner loop of LogValDiff on st = [d, th, ci]
DiffStep(vv, sf, newval, st) ==
  LET oldtilde == IndexOf(st.ci, vv[sf])
      ci1 == Touch(st.ci, vv[sf])
      newtilde == IndexOf(ci1, newval)
      ci2 == Touch(ci1, newval)
  IN [d |-> st.d - 100 * a[ls * sf + oldtilde] + 100 * a[ls * sf + newtilde],
      th |-> Plus(Minus(st.th, W[ls * sf + oldtilde]), W[ls * sf + newtilde]),
      ci |-> ci2]

RECURSIVE DiffLoop(_, _, _, _, _)
DiffLoop(s, vv, tochange, newconf, st) ==
  IF s > Len(tochange) THEN st
  ELSE DiffLoop(s + 1, vv, tochange, newconf,
                DiffStep(vv, tochange[s], newconf[s], st))

\* a mutant: the thetas of a move start from those of the move before it
MoveChained(vv, tochange, newconf, thetas, logtsum, st) ==
  LET r == DiffLoop(1, vv, tochange, newconf,
                    [d |-> 0, th |-> st.th, ci |-> st.ci])
  IN [d |-> r.d + SumLogCosh(r.th) - logtsum, th |-> r.th, ci |-> r.ci]

\* move k of LogValDiff on st = [d, th, ci]: d is logvaldiffs(k), th is
\* thetasnew_, ci is confindex_
Move(vv, tochange, newconf, thetas, logtsum, st) ==
  IF Len(tochange) # 0
  THEN LET r == DiffLoop(1, vv, tochange, newconf,
                         [d |-> 0, th |-> thetas, ci |-> st.ci])
       IN [d |-> r.d + SumLogCosh(r.th) - logtsum, th |-> r.th, ci |-> r.ci]
  ELSE [d |-> 0, th |-> st.th, ci |-> st.ci]

RECURSIVE MoveLoop(_, _, _, _, _, _, _)
MoveLoop(k, vv, tochange, newconf, thetas, logtsum, st) ==
  IF k > Len(tochange) THEN st
  ELSE LET m == Move(vv, tochange[k], newconf[k], thetas, logtsum,
                     [d |-> 0, th |-> st.th, ci |-> st.ci])
       IN MoveLoop(k + 1, vv, tochange, newconf, thetas, logtsum,
                   [out |-> [st.out EXCEPT ![k - 1] = m.d],
                    th |-> m.th, ci |-> m.ci])

\* LogValDiff(v, tochange, newconf, logvaldiffs): logvaldiffs and confindex_
LogValDiff(vv, tochange, newconf) ==
  LET thetas == ComputeTheta(vv)
      logtsum == SumLogCosh(thetas)
      r == MoveLoop(1, vv, tochange, newconf, thetas, logtsum,
                    [out |-> Zero(Len(tochange)), th |-> thetas,
                     ci |-> confindex])
  IN [out |-> r.out, ci |-> r.ci]

(***************************************************************************)
(* Derivative engine (values in hundredths).                               *)
(***************************************************************************)
\* a mutant: the derivatives by W are laid out column by column
DerLogSingleImplByColumn(vv, lt) ==
  LET vtilde == ComputeVtilde(vv)
      ka == IF usea THEN nv * ls ELSE 0
      kb == ka + (IF useb THEN nh ELSE 0)
  IN [k \in 0..(npar - 1) |->
        IF k < ka THEN 100 * vtilde[k]
        ELSE IF k < kb THEN Tanh(lt[k - ka])
        ELSE Tanh(lt[(k - kb) \div (nv * ls)]) * vtilde[(k - kb) % (nv * ls)]]

DerLogSingleImpl(vv, lt) ==
  LET vtilde == ComputeVtilde(vv)
      ka == IF usea THEN nv * ls ELSE 0
      kb == ka + (IF useb THEN nh ELSE 0)
  IN [k \in 0..(npar - 1) |->
        IF k < ka THEN 100 * vtilde[k]
        ELSE IF k < kb THEN Tanh(lt[k - ka])
        ELSE Tanh(lt[(k - kb) % nh]) * vtilde[(k - kb) \div nh]]

DerLogSingle(vv, lt) ==
  DerLogSingleImpl(vv, IF lt = << >> THEN InitLookup(vv) ELSE lt)

(***************************************************************************)
(* The machine and its callers.                                            *)
(*                                                                         *)
(*   nv .. confindex  the members of the machine                           *)
(*   v, lookup        the configuration and the lookup its sampler holds   *)
(*                    (<< >>: the empty lookup)                            *)
(*   run              what the calls since the last InitLookup were:       *)
(*                    "distinct" (legal values, no site twice in a call),  *)
(*                    "legal" (legal values), "none" (anything else, or no *)
(*                    lookup)                                              *)
(*   file, saved      the file Save wrote (a set of at most one record)    *)
(*                    and the members at that moment                       *)
(*   call, ret, err   the last call, what it returned, whether it threw    *)
(***************************************************************************)
Max(x, y) == IF x > y THEN x ELSE y

Call(op, tochange, newconf, pars) ==
  [op |-> op, tochange |-> tochange, newconf |-> newconf, pars |-> pars]

\* RbmMultival(hilbert, nhidden, alpha, usea, useb): the members of a new
\* machine.  resize leaves the arrays uninitialised (parameter state g);
\* Init() zeroes the bias that is not used.
Constructor(nhidden, alpha, ua, ub, g) ==
  LET h == Max(nhidden, alpha * HilbertSize)
  IN [nv |-> HilbertSize, ls |-> HilbertLocalSize, nh |-> h,
      usea |-> ua, useb |-> ub,
      npar |-> NparOf(HilbertSize, HilbertLocalSize, h, ua, ub),
      a |-> Arrays(h, ua, ub, g).a,
      b |-> Arrays(h, ua, ub, g).b,
      W |-> Arrays(h, ua, ub, g).W,
      confindex |-> InitConfindex(<< >>)]

\* the machines the constructor builds
Constructed ==
  {Constructor(nhidden, alpha, ua, ub, g) :
     nhidden \in {1}, alpha \in {0, 1}, ua \in BOOLEAN, ub \in BOOLEAN,
     g \in Seeds}

Init ==
  \E m \in Constructed :
       /\ nv = m.nv
       /\ ls = m.ls
       /\ nh = m.nh
       /\ usea = m.usea
       /\ useb = m.useb
       /\ npar = m.npar
       /\ a = m.a
       /\ b = m.b
       /\ W = m.W
       /\ confindex = m.confindex
       /\ v = [i \in 0..(HilbertSize - 1) |-> LocalStates[1]]
       /\ lookup = << >>
       /\ run = "none"
       /\ file = {}
       /\ saved = {}
       /\ call = Call("new", << >>, << >>, << >>)
       /\ ret = << >>
       /\ err = FALSE

\* the members agree with the Hilbert space (they do unless a Load threw)
WellFormed == nv = HilbertSize /\ ls = HilbertLocalSize

Sites == 0..(HilbertSize - 1)
Values == LegalValues \cup OtherValues
\* change lists of n entries, with the new values that go with them; a value
\* that is no local state comes in a list of one change
ChangesOf(n) ==
  IF n = 1 THEN [1..n -> Sites \X Values] ELSE [1..n -> Sites \X LegalValues]
Changes == UNION {ChangesOf(n) : n \in 0..MaxChange}
Tochange(c) == [s \in DOMAIN c |-> c[s][1]]
Newconf(c) == [s \in DOMAIN c |-> c[s][2]]

\* batches of m moves with at most t changes between them
RECURSIVE BatchesOf(_, _)
BatchesOf(m, t) ==
  IF m = 0 THEN {<< >>}
  ELSE UNION {{Append(bt, c) : bt \in BatchesOf(m - 1, t - n), c \in ChangesOf(n)}
              : n \in 0..t}
Batches == UNION {BatchesOf(m, MaxChange) : m \in 0..MaxMoves}

Legal(vv, newconf) ==
  /\ \A i \in DOMAIN vv : vv[i] \in LegalValues
  /\ \A s \in DOMAIN newconf : newconf[s] \in LegalValues
Distinct(tochange) ==
  \A s, t \in DOMAIN tochange : s # t => tochange[s] # tochange[t]

---------------------------------------------------------------------------
(* Parameter store and serializer *)

\* another machine is built over the same Hilbert space
ConstructorCall ==
  /\ \E m \in Constructed :
          /\ nv' = m.nv
          /\ ls' = m.ls
          /\ nh' = m.nh
          /\ usea' = m.usea
          /\ useb' = m.useb
          /\ npar' = m.npar
          /\ a' = m.a
          /\ b' = m.b
          /\ W' = m.W
          /\ confindex' = m.confindex
  /\ call' = Call("new", << >>, << >>, << >>)
  /\ ret' = << >>
  /\ err' = FALSE
  /\ UNCHANGED <<v, lookup, run, file, saved>>

SetParametersCall ==
  /\ WellFormed
  /\ \E s \in Seeds :
       \E pars \in {PatVec(npar, s)} :
       \E m \in {SetParameters(pars)} :
          /\ a' = m.a
          /\ b' = m.b
          /\ W' = m.W
          /\ call' = Call("SetParameters", << >>, << >>, pars)
  /\ ret' = << >>
  /\ err' = FALSE
  /\ UNCHANGED <<nv, ls, nh, usea, useb, npar, confindex, v, lookup, run,
                 file, saved>>

GetParametersCall ==
  /\ WellFormed
  /\ ret' = GetParameters
  \* pars: what SetParameters was given, if that was the call before this one
  /\ call' = Call("GetParameters", << >>, << >>,
                  IF call.op = "SetParameters" THEN call.pars ELSE << >>)
  /\ err' = FALSE
  /\ UNCHANGED <<nv, ls, nh, usea, useb, npar, a, b, W, confindex, v, lookup,
                 run, file, saved>>

SaveCall ==
  /\ WellFormed
  /\ file' = {Save}
  /\ saved' = {machine}
  /\ call' = Call("Save", << >>, << >>, << >>)
  /\ ret' = << >>
  /\ err' = FALSE
  /\ UNCHANGED <<nv, ls, nh, usea, useb, npar, a, b, W, confindex, v, lookup,
                 run>>

\* the number of hidden units the record pars asks for
Asked(pars) ==
  IF FieldExists(pars, "Nhidden") THEN pars.Nhidden
  ELSE IF FieldExists(pars, "Alpha") THEN HilbertSize * pars.Alpha
  ELSE nh

\* Load of the record pars, called op in the model
LoadOf(op, pars) ==
  \E g \in IF FieldExists(pars, "W") \/ Asked(pars) = nh THEN {0} ELSE Seeds :
  \E m \in {Load(pars, Arrays(Asked(pars), TRUE, TRUE, g).W)} :
       /\ nv' = m.nv
       /\ ls' = m.ls
       /\ nh' = m.nh
       /\ usea' = m.usea
       /\ useb' = m.useb
       /\ npar' = m.npar
       /\ a' = m.a
       /\ b' = m.b
       /\ W' = m.W
       /\ confindex' = m.confindex
       /\ err' = m.err
       /\ call' = Call(op, << >>, << >>, << >>)
       /\ ret' = << >>
       /\ UNCHANGED <<v, lookup, run, file, saved>>

\* Load of the file Save wrote
LoadSavedCall == \E pars \in file : LoadOf("LoadSaved", pars)

\* Load of that file with one field changed or missing
LoadEditedCall == \E r \in file : \E pars \in Edits(r) : LoadOf("Load", pars)

---------------------------------------------------------------------------
(* The sampler's walk *)

InitLookupCall ==
  /\ lookup' = InitLookup(v)
  /\ run' = IF Legal(v, << >>) THEN "distinct" ELSE "none"
  /\ call' = Call("InitLookup", << >>, << >>, << >>)
  /\ ret' = << >>
  /\ err' = FALSE
  /\ UNCHANGED <<nv, ls, nh, usea, useb, npar, a, b, W, confindex, v, file,
                 saved>>

\* UpdateLookup(v, tochange, newconf, lookup), and then the caller's
\* v[tochange[s]] = newconf[s].  A walk goes on for as long as its calls
\* name no site twice and pass legal values; after any other call the
\* sampler starts again from InitLookup.
UpdateLookupCall ==
  /\ run = "distinct"
  /\ \E c \in Changes :
       \E r \in {UpdateLookup(v, Tochange(c), Newconf(c), lookup)} :
          /\ lookup' = r.lt
          /\ confindex' = r.ci
          /\ v' = SetConf(1, v, Tochange(c), Newconf(c))
          /\ run' = IF ~Legal(v, Newconf(c)) THEN "none"
                    ELSE IF Distinct(Tochange(c)) THEN "distinct" ELSE "legal"
          /\ call' = Call("UpdateLookup", Tochange(c), Newconf(c), << >>)
  /\ ret' = << >>
  /\ err' = FALSE
  /\ UNCHANGED <<nv, ls, nh, usea, useb, npar, a, b, W, file, saved>>

DerLogSingleCall ==
  /\ ret' = DerLogSingle(v, lookup)
  /\ call' = Call("DerLogSingle", << >>, << >>, << >>)
  /\ err' = FALSE
  /\ UNCHANGED <<nv, ls, nh, usea, useb, npar, a, b, W, confindex, v, lookup,
                 run, file, saved>>

---------------------------------------------------------------------------
(* Proposals *)

\* the sampler starts from another configuration, with the lookup of it
ResetCall ==
  /\ \E c \in Configs : v' = c /\ lookup' = InitLookup(c)
  /\ run' = "distinct"
  /\ call' = Call("Reset", << >>, << >>, << >>)
  /\ ret' = << >>
  /\ err' = FALSE
  /\ UNCHANGED <<nv, ls, nh, usea, useb, npar, a, b, W, confindex, file,
                 saved>>

LogValSingleCall ==
  /\ ret' = [k \in {0} |-> LogValSingle(v, lookup)]
  /\ call' = Call("LogValSingle", << >>, << >>, << >>)
  /\ err' = FALSE
  /\ UNCHANGED <<nv, ls, nh, usea, useb, npar, a, b, W, confindex, v, lookup,
                 run, file, saved>>

\* a mutant: the first move of the batch is applied to the caller's lookup
LogValDiffCallInPlace ==
  /\ call.op # "LogValDiff"
  /\ \E batch \in Batches :
       \E tochange \in {[k \in DOMAIN batch |-> Tochange(batch[k])]} :
       \E newconf \in {[k \in DOMAIN batch |-> Newconf(batch[k])]} :
       \E r \in {LogValDiff(v, tochange, newconf)} :
          /\ ret' = r.out
          /\ confindex' = r.ci
          /\ lookup' = IF lookup # << >> /\ Len(batch) > 0
                        THEN UpdateLookup(v, tochange[1], newconf[1], lookup).lt
                        ELSE lookup
          /\ call' = Call("LogValDiff", tochange, newconf, << >>)
  /\ err' = FALSE
  /\ UNCHANGED <<nv, ls, nh, usea, useb, npar, a, b, W, v, run, file, saved>>

\* LogValDiff(v, tochange, newconf, logvaldiffs).  The sampler decides on a
\* batch (some other call follows) before it proposes the next one.
LogValDiffCall ==
  /\ call.op # "LogValDiff"
  /\ \E batch \in Batches :
       \E tochange \in {[k \in DOMAIN batch |-> Tochange(batch[k])]} :
       \E newconf \in {[k \in DOMAIN batch |-> Newconf(batch[k])]} :
       \E r \in {LogValDiff(v, tochange, newconf)} :
          /\ ret' = r.out
          /\ confindex' = r.ci
          /\ call' = Call("LogValDiff", tochange, newconf, << >>)
  /\ err' = FALSE
  /\ UNCHANGED <<nv, ls, nh, usea, useb, npar, a, b, W, v, lookup, run, file,
                 saved>>

---------------------------------------------------------------------------
NextStore ==
  \/ ConstructorCall
  \/ SetParametersCall
  \/ GetParametersCall
  \/ SaveCall
  \/ LoadSavedCall
  \/ LoadEditedCall

NextWalk ==
  \/ InitLookupCall
  \/ UpdateLookupCall
  \/ DerLogSingleCall

NextDiff ==
  \/ ResetCall
  \/ LogValSingleCall
  \/ LogValDiffCall

\* optimisation steps and checkpoints
SpecStore == Init /\ [][NextStore]_vars
\* one random walk at fixed parameters
SpecWalk == Init /\ [][NextWalk]_vars
\* proposal evaluation at fixed parameters
SpecDiff == Init /\ [][NextDiff]_vars

---------------------------------------------------------------------------
(* The claims *)

\* the lookup of the walk is the lookup of its configuration
Consistent == lookup = InitLookup(v)

\* C1 as stated: after InitLookup and any calls of UpdateLookup with legal
\* values, each followed by the caller's v[tochange[s]] = newconf[s], the lookup
\* is InitLookup of the configuration reached.
C1_IncrementalConsistency == run \in {"distinct", "legal"} => Consistent

\* C1 as amended: the same, for calls that name no site twice in tochange.
C1_IncrementalConsistencyDistinct == run = "distinct" => Consistent

C1_Witness ==
  /\ call.op = "UpdateLookup"
  /\ run = "distinct"
  /\ Len(call.tochange) >= 2
  /\ \A i \in Sites : v[i] # LocalStates[1]
  /\ Consistent

\* the values handed to the last call are all legal
LegalBatch ==
  \A k \in DOMAIN call.newconf :
    \A s \in DOMAIN call.newconf[k] : call.newconf[k][s] \in LegalValues

\* the configuration move k of the last LogValDiff call leads to
Moved(k) == SetConf(1, v, call.tochange[k], call.newconf[k])
\* LogValSingle(c_k) - LogValSingle(c)
Ratio(k) == LogValSingle(Moved(k), << >>) - LogValSingle(v, << >>)

\* C2 as stated: logvaldiffs(k) = LogValSingle(c_k) - LogValSingle(c) for every
\* move k of a LogValDiff call with legal values, c_k being c with the pairs of
\* move k applied.
C2_RatioCorrect ==
  (call.op = "LogValDiff" /\ LegalBatch) =>
    \A k \in DOMAIN call.tochange : ret[k - 1] = Ratio(k)

\* C2 as amended: the same, for the moves that name no site twice.
C2_RatioCorrectDistinct ==
  (call.op = "LogValDiff" /\ LegalBatch) =>
    \A k \in DOMAIN call.tochange :
      Distinct(call.tochange[k]) => ret[k - 1] = Ratio(k)

C2_Witness ==
  /\ call.op = "LogValDiff"
  /\ LegalBatch
  /\ Len(call.tochange) = 2
  /\ \A k \in 1..2 : Len(call.tochange[k]) = 1
  /\ call.tochange[1] # call.tochange[2]
  /\ ret[0] # 0 /\ ret[1] # 0 /\ ret[0] # ret[1]
  /\ usea

\* C3: GetParameters right after SetParameters(p) returns p, of length npar =
\* nv*ls*nh + (nv*ls if usea) + (nh if useb).
C3_RoundTrip ==
  (call.op = "GetParameters" /\ call.pars # << >>) =>
    /\ ret = call.pars
    /\ Size(ret) = npar
    /\ npar = nv * ls * nh + (IF usea THEN nv * ls ELSE 0)
                           + (IF useb THEN nh ELSE 0)

C3_Witness ==
  /\ call.op = "GetParameters"
  /\ call.pars # << >>
  /\ usea /\ useb /\ nh > 1
  /\ \E k \in DOMAIN ret : ret[k] # ret[0]

\* C4: a Load that throws leaves nv, ls, nh, the bias flags, npar, a, b and W
\* as they were.
C4_FailedLoadUnchanged ==
  [][(call'.op = "Load" /\ err') => machine' = machine]_vars

\* a value handed to the last UpdateLookup call is no local state
BadUpdate ==
  /\ call.op = "UpdateLookup"
  /\ \E s \in DOMAIN call.newconf : call.newconf[s] \notin LegalValues

\* C5: an UpdateLookup call given a value that is no local state reports the
\* failure, and confindex stays the map of the local states.
C5_OutOfRangeIsError ==
  BadUpdate => (err /\ DOMAIN confindex = LegalValues)

\* C6: a bias that is not used is zero.
C6_DisabledBiasZero == (~usea => IsZero(a)) /\ (~useb => IsZero(b))

\* C7: Load of the file Save wrote restores nv, ls, nh, the bias flags, npar,
\* a, b and W to what they were at Save.
C7_SaveLoad == call.op = "LoadSaved" => (~err /\ saved = {machine})

C7_Witness ==
  /\ call.op = "LoadSaved"
  /\ ~err
  /\ ~useb /\ usea /\ nh > 1
  /\ ~IsZero(a)

\* the parameter each position of the flat vector holds: <<"a", i, 0>>,
\* <<"b", j, 0>> or <<"W", i, j>>
Layout ==
  GetParametersOf([i \in 0..(nv * ls - 1) |-> <<"a", i, 0>>],
                  [j \in 0..(nh - 1) |-> <<"b", j, 0>>],
                  [i \in 0..(nv * ls - 1) |-> [j \in 0..(nh - 1) |-> <<"W", i, j>>]])

\* the derivative (in hundredths) by the parameter p at configuration vv and
\* pre-activations theta
Derivative(p, vv, theta) ==
  CASE p[1] = "a" -> 100 * ComputeVtilde(vv)[p[2]]
    [] p[1] = "b" -> Tanh(theta[p[2]])
    [] p[1] = "W" -> Tanh(theta[p[3]]) * ComputeVtilde(vv)[p[2]]

\* C8: DerLogSingle(v, lookup)[k] is the derivative by the parameter that
\* GetParameters()[k] holds, theta being the lookup, or InitLookup(v) when the
\* lookup is empty.
C8_GradientLayout ==
  call.op = "DerLogSingle" =>
    /\ DOMAIN ret = 0..(npar - 1)
    /\ \A k \in 0..(npar - 1) :
         ret[k] = Derivative(Layout[k], v,
                             IF lookup = << >> THEN InitLookup(v) ELSE lookup)

C8_Witness ==
  /\ call.op = "DerLogSingle"
  /\ usea /\ useb /\ nh > 1
  /\ lookup # << >>
  /\ \E k \in DOMAIN lookup : lookup[k] # 0 /\ lookup[k] # lookup[0]

\* C9: a move of a LogValDiff batch whose change list is empty yields 0.
C9_ZeroMove ==
  call.op = "LogValDiff" =>
    \A k \in DOMAIN call.tochange : Len(call.tochange[k]) = 0 => ret[k - 1] = 0

C9_Witness ==
  /\ call.op = "LogValDiff"
  /\ Len(call.tochange) = 2
  /\ Len(call.tochange[1]) > 0
  /\ Len(call.tochange[2]) = 0
  /\ ret[0] # 0
  /\ ret[1] = 0

\* C10: a LogValDiff call leaves the caller's lookup and a, b, W as they were,
\* and a lookup that was the lookup of v still is.
C10_LogValDiffPure ==
  [][call'.op = "LogValDiff" =>
       /\ lookup' = lookup
       /\ a' = a /\ b' = b /\ W' = W
       /\ (Consistent => Consistent')]_vars

C10_Witness ==
  /\ call.op = "LogValDiff"
  /\ Len(call.tochange) > 0
  /\ Len(call.tochange[1]) > 0
  /\ ret[0] # 0
  /\ lookup # << >>
  /\ Consistent

====
